---------------------------- MODULE Spec2Model ----------------------------
(***************************************************************************)
(* A model of src/main.py, the HTTP entry point of the Nowcasting API:     *)
(* the CORS origin list, the timing middleware, the router table, the      *)
(* ReDoc page renderer and the cached OpenAPI schema.                      *)
(*                                                                         *)
(* Every component has a specification of its own (SpecMiddleware,         *)
(* SpecOpenapi, SpecOpenapiSeq, SpecOrigins, SpecRoutes, SpecRedoc) that   *)
(* runs that component's actions while the others rest in their initial    *)
(* state; Spec is the whole application.                                   *)
(***************************************************************************)
EXTENDS Integers, Sequences, FiniteSets, TLC

VARIABLES
    \* ---- timing middleware (add_process_time_header) ----
    clock,          \* the value time.time() returns now
    mw_pc,          \* per request: where add_process_time_header stands
    route,          \* per request: the route the request is for
    start_time,     \* per request: the local start_time
    end_time,       \* per request: the second time.time() reading (line 83)
    response,       \* per request: the local response (a reference, NoRef when unbound)
    resp_heap,      \* the response objects, by reference
    downstream,     \* per request: the response as call_next produced it
    returned,       \* per request: the reference add_process_time_header returned
    raised,         \* per request: the fault call_next raised
    propagated,     \* per request: the fault that left add_process_time_header
    calls,          \* per request: how many times call_next was invoked
    \* ---- OpenAPI schema cache (custom_openapi) ----
    app_openapi_schema, \* app.openapi_schema: a reference, NoRef for None
    schemas,        \* the schema dicts get_openapi built, by reference (index)
    oa_pc,          \* per caller: where custom_openapi stands
    openapi_schema, \* per caller: the local openapi_schema (a reference)
    oa_result,      \* per caller: the reference the last completed call returned
    oa_outcome,     \* per caller: how the last call ended (returned, raised)
    oa_calls,       \* per caller: calls started
    gen_count,      \* invocations of get_openapi so far
    fault_count,    \* invocations of get_openapi that raised
    \* ---- CORS origins ----
    environ,        \* os.environ's ORIGINS entry
    or_pc,          \* position in lines 68-75
    origins,        \* the module-level origins list
    allow_origins,  \* what CORSMiddleware was configured with
    \* ---- router table ----
    routes,         \* app.routes: the router bindings in inclusion order
    rt_path,        \* the last request path resolved
    rt_handler,     \* the router it was delegated to
    \* ---- ReDoc page ----
    rd_args,        \* the arguments of the last get_redoc_html_with_theme call
    rd_html         \* the HTML it returned

mw_vars == <<clock, mw_pc, route, start_time, end_time, response, resp_heap,
             downstream, returned, raised, propagated, calls>>
oa_vars == <<app_openapi_schema, schemas, oa_pc, openapi_schema, oa_result,
             oa_outcome, oa_calls, gen_count, fault_count>>
or_vars == <<environ, or_pc, origins, allow_origins>>
rt_vars == <<routes, rt_path, rt_handler>>
rd_vars == <<rd_args, rd_html>>
vars == <<mw_vars, oa_vars, or_vars, rt_vars, rd_vars>>

\* what each component's actions leave alone
not_mw == <<oa_vars, or_vars, rt_vars, rd_vars>>
not_oa == <<mw_vars, or_vars, rt_vars, rd_vars>>
not_or == <<mw_vars, oa_vars, rt_vars, rd_vars>>
not_rt == <<mw_vars, oa_vars, or_vars, rd_vars>>
not_rd == <<mw_vars, oa_vars, or_vars, rt_vars>>

NoRef == 0

-----------------------------------------------------------------------------
(* Decimal text of a number: str() of line 83.                              *)

Digits == <<"0", "1", "2", "3", "4", "5", "6", "7", "8", "9">>

RECURSIVE NatStr(_)
NatStr(n) ==
    IF n < 10 THEN <<Digits[n + 1]>>
    ELSE NatStr(n \div 10) \o <<Digits[(n % 10) + 1]>>

\* str(x) for the clock difference x
Str(x) == IF x < 0 THEN <<"-">> \o NatStr(-x) ELSE NatStr(x)

-----------------------------------------------------------------------------
(* The timing middleware, lines 78-86.                                     *)

MaxClock == 2

Requests == {1, 2}

\* the routes a request can be for: lines 96-99, 103, 121, 230
Routes ==
    {"/", "/favicon.ico", "/newdocs", "national", "gsp", "status", "system"}

Faults == {"RuntimeError", "ValueError"}

XProcessTime == "X-Process-Time"

NoResponse == [status |-> 0, body |-> "", headers |-> << >>]

\* what the downstream chain can hand back: a success, an error-status
\* response, and a response that already carries an X-Process-Time header
DownstreamResponses ==
    { [status |-> 200, body |-> "payload",
       headers |-> ("content-type" :> <<"json">>)],
      [status |-> 500, body |-> "error",
       headers |-> ("content-type" :> <<"text">>)],
      [status |-> 404, body |-> "missing",
       headers |-> ("content-type" :> <<"text">>) @@ (XProcessTime :> <<"7">>)] }

MwInit ==
    /\ clock = 0
    /\ mw_pc = [r \in Requests |-> "idle"]
    /\ route = [r \in Requests |-> "/"]
    /\ start_time = [r \in Requests |-> 0]
    /\ end_time = [r \in Requests |-> 0]
    /\ response = [r \in Requests |-> NoRef]
    /\ resp_heap = [r \in Requests |-> NoResponse]
    /\ downstream = [r \in Requests |-> NoResponse]
    /\ returned = [r \in Requests |-> NoRef]
    /\ raised = [r \in Requests |-> "none"]
    /\ propagated = [r \in Requests |-> "none"]
    /\ calls = [r \in Requests |-> 0]

\* time.time() advances
Tick ==
    /\ clock < MaxClock
    /\ clock' = clock + 1
    /\ UNCHANGED <<mw_pc, route, start_time, end_time, response, resp_heap,
                   downstream, returned, raised, propagated, calls, not_mw>>

\* time.time() is the system's wall clock: it is set back when the system
\* clock is adjusted
ClockSetBack ==
    /\ clock > 0
    /\ \E t \in 0..(clock - 1) : clock' = t
    /\ UNCHANGED <<mw_pc, route, start_time, end_time, response, resp_heap,
                   downstream, returned, raised, propagated, calls, not_mw>>

\* lines 81-82: start_time = time.time(); call_next(request) is awaited
MwEnter(r) ==
    /\ mw_pc[r] = "idle"
    /\ \E rt \in Routes : route' = [route EXCEPT ![r] = rt]
    /\ start_time' = [start_time EXCEPT ![r] = clock]
    /\ calls' = [calls EXCEPT ![r] = @ + 1]
    /\ mw_pc' = [mw_pc EXCEPT ![r] = "awaiting"]
    /\ UNCHANGED <<clock, end_time, response, resp_heap, downstream, returned,
                   raised, propagated, not_mw>>

\* line 82: call_next returns a response object, bound to response
MwCallNextReturns(r) ==
    /\ mw_pc[r] = "awaiting"
    /\ \E d \in DownstreamResponses :
          /\ resp_heap' = [resp_heap EXCEPT ![r] = d]
          /\ downstream' = [downstream EXCEPT ![r] = d]
    /\ response' = [response EXCEPT ![r] = r]
    /\ mw_pc' = [mw_pc EXCEPT ![r] = "resumed"]
    /\ UNCHANGED <<clock, route, start_time, end_time, returned, raised,
                   propagated, calls, not_mw>>

\* a handler of the fault that would turn it into a 500 response carrying
\* the header
MwCallNextRaisesHandled(r) ==
    /\ mw_pc[r] = "awaiting"
    /\ \E f \in Faults : raised' = [raised EXCEPT ![r] = f]
    /\ resp_heap' = [resp_heap EXCEPT ![r] =
                        [status |-> 500, body |-> "Internal Server Error",
                         headers |-> (XProcessTime :> Str(clock - start_time[r]))]]
    /\ response' = [response EXCEPT ![r] = r]
    /\ returned' = [returned EXCEPT ![r] = r]
    /\ mw_pc' = [mw_pc EXCEPT ![r] = "returned"]
    /\ UNCHANGED <<clock, route, start_time, end_time, downstream, propagated,
                   calls, not_mw>>

\* line 82: call_next raises; there is no try around it, the fault leaves
\* add_process_time_header
MwCallNextRaises(r) ==
    /\ mw_pc[r] = "awaiting"
    /\ \E f \in Faults :
          /\ raised' = [raised EXCEPT ![r] = f]
          /\ propagated' = [propagated EXCEPT ![r] = f]
    /\ mw_pc' = [mw_pc EXCEPT ![r] = "faulted"]
    /\ UNCHANGED <<clock, route, start_time, end_time, response, resp_heap,
                   downstream, returned, calls, not_mw>>

\* a header write that replaces the whole header map
SetHeaderDroppingOthers(resp, name, value) ==
    [resp EXCEPT !.headers = (name :> value)]

\* line 85: response.headers["X-Process-Time"] = process_time
SetHeader(resp, name, value) ==
    [resp EXCEPT !.headers = (name :> value) @@ @]

\* line 83: str(time.time() - start_time)
ProcessTime(now, start) == Str(now - start)

\* lines 83-86: process_time is computed, the header set, response returned
MwFinish(r) ==
    /\ mw_pc[r] = "resumed"
    /\ end_time' = [end_time EXCEPT ![r] = clock]
    /\ resp_heap' = [resp_heap EXCEPT ![response[r]] =
                        SetHeader(@, XProcessTime,
                                  ProcessTime(clock, start_time[r]))]
    /\ returned' = [returned EXCEPT ![r] = response[r]]
    /\ mw_pc' = [mw_pc EXCEPT ![r] = "returned"]
    /\ UNCHANGED <<clock, route, start_time, response, downstream, raised,
                   propagated, calls, not_mw>>

MwNext ==
    \/ Tick
    \/ ClockSetBack
    \/ \E r \in Requests : MwEnter(r)
    \/ \E r \in Requests : MwCallNextReturns(r)
    \/ \E r \in Requests : MwCallNextRaises(r)
    \/ \E r \in Requests : MwFinish(r)

-----------------------------------------------------------------------------
(* The OpenAPI schema cache, lines 239-264.                                *)

MaxCalls == 2

\* the concurrent callers of app.openapi()
Callers == {1, 2}

title == "Nowcasting API"

version == "0.2.27"

LogoUrl == "https://www.nowcasting.io/nowcasting.svg"

\* lines 242-256: the dict get_openapi builds from title, version,
\* description, contact, license_info and app.routes; it has no x-logo
GetOpenapi ==
    [openapi |-> "3.0.2",
     info |-> [title |-> title,
               version |-> version,
               description |-> "description",
               contact |-> [name |-> "Open Climate Fix",
                            url |-> "https://openclimatefix.org",
                            email |-> "info@openclimatefix.org"],
               license |-> [name |-> "MIT License",
                            url |-> "https://github.com/openclimatefix/nowcasting_api/blob/main/LICENSE"]],
     paths |-> {"/", "/v0/solar/GB/national", "/v0/solar/GB/gsp",
                "/v0/solar/GB", "/v0/system/GB/gsp"}]

\* lines 257-259: openapi_schema["info"]["x-logo"] = {"url": ...}
InjectLogoNothing(d) == d

InjectLogo(d) ==
    [d EXCEPT !.info = ("x-logo" :> [url |-> LogoUrl]) @@ @]

\* line 240: the truth value of app.openapi_schema (None and {} are false)
TruthyNever(ref) == FALSE

Truthy(ref) == ref # NoRef /\ DOMAIN schemas[ref] # {}

\* the order of the statements after get_openapi: lines 257-259, 260, 261
StatementOrderStoreFirst == <<"store", "inject", "return">>

StatementOrder == <<"inject", "store", "return">>

\* the statement that follows statement p
NextStatement(p) ==
    LET i == CHOOSE k \in 1..Len(StatementOrder) : StatementOrder[k] = p
    IN  StatementOrder[i + 1]

OaInit ==
    /\ app_openapi_schema = NoRef
    /\ schemas = << >>
    /\ oa_pc = [c \in Callers |-> "idle"]
    /\ openapi_schema = [c \in Callers |-> NoRef]
    /\ oa_result = [c \in Callers |-> NoRef]
    /\ oa_outcome = [c \in Callers |-> "none"]
    /\ oa_calls = [c \in Callers |-> 0]
    /\ gen_count = 0
    /\ fault_count = 0

\* line 240: custom_openapi is entered and tests app.openapi_schema
OaCall(c) ==
    /\ oa_pc[c] = "idle"
    /\ oa_calls[c] < MaxCalls
    /\ oa_calls' = [oa_calls EXCEPT ![c] = @ + 1]
    /\ oa_pc' = [oa_pc EXCEPT ![c] =
                    IF Truthy(app_openapi_schema) THEN "hit" ELSE "generate"]
    /\ oa_result' = [oa_result EXCEPT ![c] = NoRef]
    /\ oa_outcome' = [oa_outcome EXCEPT ![c] = "running"]
    /\ openapi_schema' = [openapi_schema EXCEPT ![c] = NoRef]
    /\ UNCHANGED <<app_openapi_schema, schemas, gen_count, fault_count, not_oa>>

\* the same, for callers that run one after another: no call is in progress
OaCallInTurn(c) ==
    /\ \A d \in Callers : oa_pc[d] = "idle"
    /\ OaCall(c)

\* line 241: return app.openapi_schema
OaReturnCached(c) ==
    /\ oa_pc[c] = "hit"
    /\ oa_result' = [oa_result EXCEPT ![c] = app_openapi_schema]
    /\ oa_outcome' = [oa_outcome EXCEPT ![c] = "returned"]
    /\ oa_pc' = [oa_pc EXCEPT ![c] = "idle"]
    /\ UNCHANGED <<app_openapi_schema, schemas, openapi_schema, oa_calls,
                   gen_count, fault_count, not_oa>>

\* lines 242-256: get_openapi returns a new dict, bound to openapi_schema
OaGenerate(c) ==
    /\ oa_pc[c] = "generate"
    /\ schemas' = Append(schemas, GetOpenapi)
    /\ openapi_schema' = [openapi_schema EXCEPT ![c] = Len(schemas) + 1]
    /\ gen_count' = gen_count + 1
    /\ oa_pc' = [oa_pc EXCEPT ![c] = StatementOrder[1]]
    /\ UNCHANGED <<app_openapi_schema, oa_result, oa_outcome, oa_calls,
                   fault_count, not_oa>>

\* a fault in get_openapi that custom_openapi would catch, caching an empty
\* schema
OaGenerateRaisesCaught(c) ==
    /\ oa_pc[c] = "generate"
    /\ gen_count' = gen_count + 1
    /\ fault_count' = fault_count + 1
    /\ schemas' = Append(schemas, [info |-> [title |-> title]])
    /\ app_openapi_schema' = Len(schemas) + 1
    /\ oa_result' = [oa_result EXCEPT ![c] = Len(schemas) + 1]
    /\ oa_outcome' = [oa_outcome EXCEPT ![c] = "returned"]
    /\ oa_pc' = [oa_pc EXCEPT ![c] = "idle"]
    /\ UNCHANGED <<openapi_schema, oa_calls, not_oa>>

\* lines 242-256: get_openapi raises; nothing catches it, the fault leaves
\* custom_openapi
OaGenerateRaises(c) ==
    /\ oa_pc[c] = "generate"
    /\ gen_count' = gen_count + 1
    /\ fault_count' = fault_count + 1
    /\ oa_outcome' = [oa_outcome EXCEPT ![c] = "raised"]
    /\ oa_pc' = [oa_pc EXCEPT ![c] = "idle"]
    /\ UNCHANGED <<app_openapi_schema, schemas, openapi_schema, oa_result,
                   oa_calls, not_oa>>

\* lines 257-259: the x-logo entry is written into the dict openapi_schema
\* refers to
OaInjectLogo(c) ==
    /\ oa_pc[c] = "inject"
    /\ schemas' = [schemas EXCEPT ![openapi_schema[c]] = InjectLogo(@)]
    /\ oa_pc' = [oa_pc EXCEPT ![c] = NextStatement("inject")]
    /\ UNCHANGED <<app_openapi_schema, openapi_schema, oa_result, oa_outcome,
                   oa_calls, gen_count, fault_count, not_oa>>

\* line 260: app.openapi_schema = openapi_schema
OaStore(c) ==
    /\ oa_pc[c] = "store"
    /\ app_openapi_schema' = openapi_schema[c]
    /\ oa_pc' = [oa_pc EXCEPT ![c] = NextStatement("store")]
    /\ UNCHANGED <<schemas, openapi_schema, oa_result, oa_outcome, oa_calls,
                   gen_count, fault_count, not_oa>>

\* line 261: return app.openapi_schema
OaReturn(c) ==
    /\ oa_pc[c] = "return"
    /\ oa_result' = [oa_result EXCEPT ![c] = app_openapi_schema]
    /\ oa_outcome' = [oa_outcome EXCEPT ![c] = "returned"]
    /\ oa_pc' = [oa_pc EXCEPT ![c] = "idle"]
    /\ UNCHANGED <<app_openapi_schema, schemas, openapi_schema, oa_calls,
                   gen_count, fault_count, not_oa>>

\* callers interleave at every statement
OaNext ==
    \/ \E c \in Callers : OaCall(c)
    \/ \E c \in Callers : OaReturnCached(c)
    \/ \E c \in Callers : OaGenerate(c)
    \/ \E c \in Callers : OaGenerateRaises(c)
    \/ \E c \in Callers : OaInjectLogo(c)
    \/ \E c \in Callers : OaStore(c)
    \/ \E c \in Callers : OaReturn(c)

\* callers run one after another
OaSeqNext ==
    \/ \E c \in Callers : OaCallInTurn(c)
    \/ \E c \in Callers : OaReturnCached(c)
    \/ \E c \in Callers : OaGenerate(c)
    \/ \E c \in Callers : OaGenerateRaises(c)
    \/ \E c \in Callers : OaInjectLogo(c)
    \/ \E c \in Callers : OaStore(c)
    \/ \E c \in Callers : OaReturn(c)

-----------------------------------------------------------------------------
(* The CORS origin list, lines 68-75.  A string is a sequence of symbols;  *)
(* "," is the comma and every other symbol holds no comma.                 *)

MaxLen == 3

Alphabet == {"a", "b", ","}

Strings == UNION {[1..k -> Alphabet] : k \in 0..MaxLen}

\* os.environ with and without an ORIGINS entry
EnvValues ==
    {[set |-> FALSE, value |-> << >>]} \cup
    {[set |-> TRUE, value |-> s] : s \in Strings}

\* the default of line 68, a string without a comma
DefaultOrigins == <<"https://app.nowcasting.io">>

\* os.getenv(name, default)
Getenv(env, default) == IF env.set THEN env.value ELSE default

Commas(s) == {i \in 1..Len(s) : s[i] = ","}

\* a split that drops empty entries, as str.split() without a separator does
RECURSIVE SplitSkipEmpty(_)
SplitSkipEmpty(s) ==
    IF Commas(s) = {}
    THEN IF Len(s) = 0 THEN << >> ELSE <<s>>
    ELSE LET i == CHOOSE k \in Commas(s) : \A j \in Commas(s) : k <= j
             head == SubSeq(s, 1, i - 1)
         IN  (IF Len(head) = 0 THEN << >> ELSE <<head>>)
             \o SplitSkipEmpty(SubSeq(s, i + 1, Len(s)))

\* str.split(","): the pieces between the commas, empty pieces kept
RECURSIVE Split(_)
Split(s) ==
    IF Commas(s) = {}
    THEN <<s>>
    ELSE LET i == CHOOSE k \in Commas(s) : \A j \in Commas(s) : k <= j
         IN  <<SubSeq(s, 1, i - 1)>> \o Split(SubSeq(s, i + 1, Len(s)))

OrInit ==
    /\ environ \in EnvValues
    /\ or_pc = "start"
    /\ origins = << >>
    /\ allow_origins = << >>

\* line 68: origins = os.getenv("ORIGINS", default).split(",")
LoadOrigins ==
    /\ or_pc = "start"
    /\ origins' = Split(Getenv(environ, DefaultOrigins))
    /\ or_pc' = "origins_set"
    /\ UNCHANGED <<environ, allow_origins, not_or>>

\* lines 69-75: app.add_middleware(CORSMiddleware, allow_origins=origins, ...)
AddCorsMiddleware ==
    /\ or_pc = "origins_set"
    /\ allow_origins' = origins
    /\ or_pc' = "cors_added"
    /\ UNCHANGED <<environ, origins, not_or>>

OrNext ==
    \/ LoadOrigins
    \/ AddCorsMiddleware

-----------------------------------------------------------------------------
(* The router table, lines 93-99.  A path is its sequence of segments.     *)

MaxTail == 3

v0_route_solar == <<"v0", "solar", "GB">>

v0_route_system == <<"v0", "system", "GB">>

\* the include_router calls with the status router first
IncludeOrderStatusFirst ==
    << [router |-> "status",   prefix |-> v0_route_solar],
       [router |-> "national", prefix |-> v0_route_solar \o <<"national">>],
       [router |-> "gsp",      prefix |-> v0_route_solar \o <<"gsp">>],
       [router |-> "system",   prefix |-> v0_route_system \o <<"gsp">>] >>

\* lines 96-99: the include_router calls, in order
IncludeOrder ==
    << [router |-> "national", prefix |-> v0_route_solar \o <<"national">>],
       [router |-> "gsp",      prefix |-> v0_route_solar \o <<"gsp">>],
       [router |-> "status",   prefix |-> v0_route_solar],
       [router |-> "system",   prefix |-> v0_route_system \o <<"gsp">>] >>

Segments == {"national", "gsp", "status", "forecast"}

Tails == UNION {[1..k -> Segments] : k \in 0..MaxTail}

\* the request paths: everything under the two version roots
Paths == {b \o t : b \in {v0_route_solar, v0_route_system}, t \in Tails}

\* a router serves the paths below its prefix
RouterServes(binding, path) ==
    /\ Len(path) > Len(binding.prefix)
    /\ SubSeq(path, 1, Len(binding.prefix)) = binding.prefix

\* the first binding of the table, in inclusion order, that serves the path
Resolve(table, path) ==
    LET hits == {i \in 1..Len(table) : RouterServes(table[i], path)}
    IN  IF hits = {} THEN "none"
        ELSE table[CHOOSE i \in hits : \A j \in hits : i <= j].router

RtInit ==
    /\ routes = << >>
    /\ rt_path = << >>
    /\ rt_handler = "none"

\* lines 96-99: the next app.include_router call
IncludeRouter ==
    /\ Len(routes) < Len(IncludeOrder)
    /\ routes' = Append(routes, IncludeOrder[Len(routes) + 1])
    /\ UNCHANGED <<rt_path, rt_handler, not_rt>>

\* a request is routed once the module is loaded
RouteRequest(path) ==
    /\ Len(routes) = Len(IncludeOrder)
    /\ rt_path' = path
    /\ rt_handler' = Resolve(routes, path)
    /\ UNCHANGED <<routes, not_rt>>

RtNext ==
    \/ IncludeRouter
    \/ \E path \in Paths : RouteRequest(path)

-----------------------------------------------------------------------------
(* The ReDoc page, lines 126-236.  The page is the sequence of the pieces  *)
(* the f-strings concatenate: fixed markup and the interpolated values.    *)

NoArgs ==
    [openapi_url |-> "", title |-> "", redoc_js_url |-> "",
     redoc_favicon_url |-> "", with_google_fonts |-> FALSE, theme |-> ""]

\* the defaults of lines 128-133
DefaultOpenapiUrl == "./openapi.json"

DefaultRedocJsUrl ==
    "https://cdn.jsdelivr.net/npm/redoc@next/bundles/redoc.standalone.js"

DefaultFaviconUrl == "/favicon.png"

DefaultTheme == "{}"

\* lines 167-223: the options object written into the page
PageTheme == "{theme: {colors: {primary: {main: #f7ba17, light: #ffefc6}, ...}, typography: ..., sidebar: ..., logo: ..., rightPanel: ...}}"

OtherTheme == "{theme: {colors: {primary: {main: #000000}}}}"

RedocArgs ==
    [openapi_url : {DefaultOpenapiUrl, "/v0/openapi.json"},
     title : {title, "Docs", "API"},
     redoc_js_url : {DefaultRedocJsUrl, "/static/redoc.js"},
     redoc_favicon_url : {DefaultFaviconUrl, "/favicon.ico"},
     with_google_fonts : BOOLEAN,
     theme : {DefaultTheme, PageTheme, OtherTheme}]

TitleOpen == "<title>"
FontsLink == "<link href=https://fonts.googleapis.com/css?family=Inter:300,400,700 rel=stylesheet>"
IconOpen == "<link rel=shortcut icon href="
ScriptOpen == "<script src="
InitOpen == "Redoc.init("
InitSep == ", "
InitClose == ", document.getElementById('redoc-container'))"

\* lines 135-228: the HTML of get_redoc_html_with_theme; theme is not read
get_redoc_html_with_theme(a) ==
    <<"<!DOCTYPE html><html><head>", TitleOpen, a.title, "</title><meta charset=utf-8/><meta name=viewport>">>
    \o (IF a.with_google_fonts THEN <<FontsLink>> ELSE << >>)
    \o <<IconOpen, a.redoc_favicon_url,
         "><style>body {margin: 0; padding: 0;}</style></head><body><div id=redoc-container></div><noscript>...</noscript>",
         ScriptOpen, a.redoc_js_url, "> </script><script>",
         InitOpen, a.openapi_url, InitSep, PageTheme, InitClose,
         "</script></body></html>">>

RdInit ==
    /\ rd_args = NoArgs
    /\ rd_html = << >>

\* a call of get_redoc_html_with_theme
RenderRedoc(a) ==
    /\ rd_args' = a
    /\ rd_html' = get_redoc_html_with_theme(a)
    /\ UNCHANGED not_rd

\* lines 230-236: GET /newdocs calls it with title=title, theme={}
redoc_html ==
    RenderRedoc([openapi_url |-> DefaultOpenapiUrl, title |-> title,
                 redoc_js_url |-> DefaultRedocJsUrl,
                 redoc_favicon_url |-> DefaultFaviconUrl,
                 with_google_fonts |-> TRUE, theme |-> DefaultTheme])

RdNext ==
    \/ \E a \in RedocArgs : RenderRedoc(a)
    \/ redoc_html

-----------------------------------------------------------------------------
(* The specifications.                                                     *)

Init == MwInit /\ OaInit /\ OrInit /\ RtInit /\ RdInit

\* the process as deployed by default: ORIGINS is not set
InitDefaultEnv == Init /\ ~environ.set

Next == MwNext \/ OaNext \/ OrNext \/ RtNext \/ RdNext

Spec == Init /\ [][Next]_vars

SpecMiddleware == InitDefaultEnv /\ [][MwNext]_vars

SpecOpenapi == InitDefaultEnv /\ [][OaNext]_vars

SpecOpenapiSeq == InitDefaultEnv /\ [][OaSeqNext]_vars

SpecOrigins == Init /\ [][OrNext]_vars

SpecRoutes == InitDefaultEnv /\ [][RtNext]_vars

SpecRedoc == InitDefaultEnv /\ [][RdNext]_vars

-----------------------------------------------------------------------------
(* The timing middleware's properties (SpecMiddleware).                    *)

\* the number a client reads from a header value: the inverse of Str
DigitVal(ch) == CHOOSE d \in 0..9 : Digits[d + 1] = ch

RECURSIVE ParseNat(_)
ParseNat(s) ==
    IF Len(s) = 0 THEN 0
    ELSE 10 * ParseNat(SubSeq(s, 1, Len(s) - 1)) + DigitVal(s[Len(s)])

ParseNum(s) ==
    IF Len(s) > 0 /\ s[1] = "-" THEN 0 - ParseNat(Tail(s)) ELSE ParseNat(s)

\* the response add_process_time_header returned for request r
ReturnedResponse(r) == resp_heap[returned[r]]

\* C1: every request whose downstream chain returned a response gets that
\* response back with an X-Process-Time header holding the elapsed time of
\* the same request (second clock reading minus its own start_time), and
\* that value is not negative.
C1_ProcessTimeNonNegative ==
    \A r \in Requests :
        mw_pc[r] = "returned" =>
            /\ returned[r] # NoRef
            /\ XProcessTime \in DOMAIN ReturnedResponse(r).headers
            /\ ParseNum(ReturnedResponse(r).headers[XProcessTime])
                   = end_time[r] - start_time[r]
            /\ ParseNum(ReturnedResponse(r).headers[XProcessTime]) >= 0

\* C6: when call_next raises, the same fault leaves add_process_time_header:
\* no response is returned, no header is written, call_next is not invoked
\* again and no error response is made of the fault.
C6_FaultPropagates ==
    \A r \in Requests :
        raised[r] # "none" =>
            /\ mw_pc[r] = "faulted"
            /\ propagated[r] = raised[r]
            /\ returned[r] = NoRef
            /\ response[r] = NoRef
            /\ resp_heap[r] = NoResponse
            /\ calls[r] = 1

C6_Witness ==
    /\ mw_pc[1] = "faulted"
    /\ raised[1] = "ValueError"
    /\ mw_pc[2] = "returned"

\* C7: the response returned is the object the downstream chain produced,
\* with its status, its body and every other header as produced; the one
\* change is the X-Process-Time header, written only after the downstream
\* chain has completed and not later than the return.
C7_OnlyHeaderChanged ==
    \A r \in Requests :
        /\ mw_pc[r] \in {"idle", "awaiting"} => resp_heap[r] = NoResponse
        /\ mw_pc[r] = "resumed" =>
              /\ resp_heap[r] = downstream[r]
              /\ returned[r] = NoRef
        /\ mw_pc[r] = "returned" =>
              /\ returned[r] = response[r]
              /\ returned[r] = r
              /\ ReturnedResponse(r).status = downstream[r].status
              /\ ReturnedResponse(r).body = downstream[r].body
              /\ DOMAIN ReturnedResponse(r).headers
                     = DOMAIN downstream[r].headers \cup {XProcessTime}
              /\ \A h \in DOMAIN downstream[r].headers \ {XProcessTime} :
                     ReturnedResponse(r).headers[h] = downstream[r].headers[h]

C7_Witness ==
    /\ mw_pc[1] = "returned"
    /\ downstream[1].status = 404
    /\ ReturnedResponse(1).headers[XProcessTime] = <<"1">>
    /\ mw_pc[2] = "resumed"

-----------------------------------------------------------------------------
(* The schema cache's properties (SpecOpenapi, SpecOpenapiSeq).            *)

\* the info object of schema dict d carries the logo
HasLogo(d) ==
    /\ "x-logo" \in DOMAIN d.info
    /\ d.info["x-logo"].url = "https://www.nowcasting.io/nowcasting.svg"

\* C2: for calls made one after another: get_openapi produces at most one
\* schema, which is stored; every call that returns, returns that stored
\* object; once the schema is stored get_openapi is not called again, and
\* the stored reference and the schema never change again.
C2_CacheStateMachine ==
    /\ [](/\ Len(schemas) <= 1
          /\ gen_count - fault_count = Len(schemas)
          /\ \A c \in Callers :
                oa_outcome[c] = "returned" =>
                    /\ oa_result[c] # NoRef
                    /\ oa_result[c] = app_openapi_schema)
    /\ [][/\ \A c \in Callers :
                (oa_pc[c] = "generate" /\ oa_pc'[c] # "generate") =>
                    gen_count' = gen_count + 1
          /\ app_openapi_schema # NoRef =>
                /\ app_openapi_schema' = app_openapi_schema
                /\ gen_count' = gen_count
                /\ schemas' = schemas]_vars

C2_Witness ==
    /\ \A c \in Callers : oa_pc[c] = "idle" /\ oa_outcome[c] = "returned"
    /\ oa_calls[1] = 2
    /\ oa_calls[2] = 1
    /\ gen_count = 1

\* C3 as stated: once app.openapi_schema is assigned, no step replaces it by
\* another object or modifies it.
C3_NeverReplaced ==
    [][app_openapi_schema # NoRef =>
          /\ app_openapi_schema' = app_openapi_schema
          /\ schemas'[app_openapi_schema] = schemas[app_openapi_schema]]_vars

\* C3, amended: once app.openapi_schema is assigned it is never unset and
\* the cached object is never modified; a racing caller may replace it, but
\* only by an object of equal content, and every schema a caller returns is
\* equal in content to the cached one.
C3_CacheContentStable ==
    /\ [](\A c \in Callers :
             oa_outcome[c] = "returned" =>
                 /\ oa_result[c] # NoRef
                 /\ app_openapi_schema # NoRef
                 /\ schemas[oa_result[c]] = schemas[app_openapi_schema])
    /\ [][app_openapi_schema # NoRef =>
             /\ app_openapi_schema' # NoRef
             /\ schemas'[app_openapi_schema'] = schemas[app_openapi_schema]
             /\ schemas'[app_openapi_schema] = schemas[app_openapi_schema]]_vars

C3_Witness ==
    /\ app_openapi_schema = 2
    /\ oa_outcome[1] = "returned"
    /\ oa_result[1] = 1

\* C4: whenever app.openapi_schema is set, and for every value
\* custom_openapi has returned, info["x-logo"]["url"] is the logo URL.
C4_LogoAlwaysPresent ==
    /\ app_openapi_schema # NoRef => HasLogo(schemas[app_openapi_schema])
    /\ \A c \in Callers :
          oa_outcome[c] = "returned" =>
              /\ oa_result[c] # NoRef
              /\ HasLogo(schemas[oa_result[c]])

C4_Witness ==
    /\ app_openapi_schema # NoRef
    /\ oa_outcome[1] = "returned"
    /\ oa_pc[2] = "inject"

\* C10: a step in which get_openapi raises leaves app.openapi_schema unset
\* and the schemas untouched, and ends the call with the fault and no
\* result; a call that starts while the schema is unset goes to get_openapi;
\* a call that returns leaves the schema cached, with its logo.
C10_FaultLeavesUncached ==
    [][/\ fault_count' # fault_count =>
             /\ app_openapi_schema = NoRef
             /\ app_openapi_schema' = NoRef
             /\ schemas' = schemas
             /\ \E c \in Callers :
                   /\ oa_pc[c] = "generate"
                   /\ oa_pc'[c] = "idle"
                   /\ oa_outcome'[c] = "raised"
                   /\ oa_result'[c] = NoRef
       /\ \A c \in Callers :
             (oa_pc[c] = "idle" /\ oa_pc'[c] # "idle"
                  /\ app_openapi_schema = NoRef) =>
                 oa_pc'[c] = "generate"
       /\ \A c \in Callers :
             (oa_outcome[c] # "returned" /\ oa_outcome'[c] = "returned") =>
                 /\ app_openapi_schema' # NoRef
                 /\ HasLogo(schemas'[app_openapi_schema'])]_vars

C10_Witness ==
    /\ fault_count >= 1
    /\ oa_outcome[1] = "raised"
    /\ oa_outcome[2] = "returned"
    /\ app_openapi_schema # NoRef

-----------------------------------------------------------------------------
(* The origin list's properties (SpecOrigins).                             *)

\* the pieces of list l joined by commas
RECURSIVE Join(_)
Join(l) ==
    IF Len(l) = 0 THEN << >>
    ELSE IF Len(l) = 1 THEN l[1]
    ELSE l[1] \o <<",">> \o Join(Tail(l))

\* C5: the allowed origins are the ORIGINS value cut at its commas, in
\* order: one more entry than there are commas, no entry holding a comma,
\* the entries joined by commas giving the value back; without ORIGINS the
\* list is the one default origin; a value without a comma is the single
\* entry; the list is never empty.
C5_OriginsSplit ==
    or_pc = "cors_added" =>
        /\ Len(allow_origins) >= 1
        /\ environ.set =>
              /\ Len(allow_origins) = Cardinality(Commas(environ.value)) + 1
              /\ \A i \in 1..Len(allow_origins) : Commas(allow_origins[i]) = {}
              /\ Join(allow_origins) = environ.value
              /\ Commas(environ.value) = {} => allow_origins = <<environ.value>>
        /\ ~environ.set => allow_origins = << <<"https://app.nowcasting.io">> >>

C5_Witness ==
    /\ or_pc = "cors_added"
    /\ environ.set
    /\ environ.value = <<"a", ",", "b">>
    /\ allow_origins = << <<"a">>, <<"b">> >>

-----------------------------------------------------------------------------
(* The router table's properties (SpecRoutes).                             *)

Under(path, prefix) ==
    /\ Len(path) > Len(prefix)
    /\ SubSeq(path, 1, Len(prefix)) = prefix

\* C8: the table holds national, gsp, status, system in that order under
\* /v0/solar/GB/national, /v0/solar/GB/gsp, /v0/solar/GB and
\* /v0/system/GB/gsp; a request under /v0/solar/GB/national/ goes to the
\* national router, one under /v0/solar/GB/gsp/ to the gsp router, one under
\* /v0/system/GB/gsp/ to the system router, none of them to the status
\* router.
C8_RouterDelegation ==
    /\ Len(routes) = 4 =>
          /\ [i \in 1..4 |-> routes[i].router]
                 = <<"national", "gsp", "status", "system">>
          /\ [i \in 1..4 |-> routes[i].prefix]
                 = << <<"v0", "solar", "GB", "national">>,
                      <<"v0", "solar", "GB", "gsp">>,
                      <<"v0", "solar", "GB">>,
                      <<"v0", "system", "GB", "gsp">> >>
    /\ Under(rt_path, <<"v0", "solar", "GB", "national">>)
          => rt_handler = "national"
    /\ Under(rt_path, <<"v0", "solar", "GB", "gsp">>) => rt_handler = "gsp"
    /\ Under(rt_path, <<"v0", "system", "GB", "gsp">>) => rt_handler = "system"

C8_Witness ==
    /\ rt_path = <<"v0", "solar", "GB", "national", "forecast">>
    /\ rt_handler = "national"

-----------------------------------------------------------------------------
(* The ReDoc page's properties (SpecRedoc).                                *)

\* the piece of page h that follows the markup piece m
After(h, m) == h[(CHOOSE i \in 1..Len(h) : h[i] = m) + 1]

\* C9: the page is a function of the six arguments, and the title, the
\* script URL, the favicon URL, the schema URL and the theme object in the
\* Redoc.init call are the ones the caller passed.
C9_PageUsesArguments ==
    rd_html # << >> =>
        /\ rd_html = get_redoc_html_with_theme(rd_args)
        /\ After(rd_html, TitleOpen) = rd_args.title
        /\ After(rd_html, ScriptOpen) = rd_args.redoc_js_url
        /\ After(rd_html, IconOpen) = rd_args.redoc_favicon_url
        /\ After(rd_html, InitOpen) = rd_args.openapi_url
        /\ (FontsLink \in {rd_html[i] : i \in 1..Len(rd_html)})
               = rd_args.with_google_fonts
        /\ After(rd_html, InitSep) = rd_args.theme

=============================================================================
